---- MODULE Spec2Model ----
(***************************************************************************)
(* translate_text_libre of translatepro.py: the chunked translation loop   *)
(* with retries and rotation over the LibreTranslate instances.            *)
(* A text is a sequence of one-character strings.                          *)
(***************************************************************************)
EXTENDS Integers, Sequences, FiniteSets, TLC

VARIABLES text, chunks, translated_chunks, instance_index, i, retry, pc,
          result, requests, failures, rotations, sleeps, progress, origin,
          exhausted, echo_run, responses, cancel_requested

vars == <<text, chunks, translated_chunks, instance_index, i, retry, pc,
          result, requests, failures, rotations, sleeps, progress, origin,
          exhausted, echo_run, responses, cancel_requested>>

\* ---------------------------------------------------------------- bounds
\* Longest input text explored.
MaxTextLen == 4

\* Width of the chunking window; stands for the 1000 of range(0, len, 1000)
\* and text[i:i+1000], scaled so that multi-chunk texts stay enumerable.
ChunkSize == 2

\* ------------------------------------------------------ program constants
\* max_retries = 3
max_retries == 3

\* len(LIBRE_TRANSLATE_INSTANCES)
NumInstances == 3

\* Characters of the explored texts: a letter and two whitespace characters.
Alphabet == {"a", " ", "\n"}

\* Characters str.strip() removes.
Whitespace == {" ", "\n"}

Texts == UNION {[1..n -> Alphabet] : n \in 0..MaxTextLen}

\* ---------------------------------------------------------------- helpers
Min(a, b) == IF a < b THEN a ELSE b

\* text[lo:hi] with 0-based, end-exclusive Python slice bounds (hi clamped).
Slice(s, lo, hi) == SubSeq(s, lo + 1, Min(hi, Len(s)))

\* chunks = []; for i in range(0, len(text), 1000): chunks.append(text[i:i+1000])
RECURSIVE ChunkFrom(_, _)
ChunkFrom(s, off) ==
    IF off >= Len(s) THEN <<>>
    ELSE <<Slice(s, off, off + ChunkSize)>> \o ChunkFrom(s, off + ChunkSize)

\* The windows of text[i:i+1000-1].
RECURSIVE ShortChunkFrom(_, _)
ShortChunkFrom(s, off) ==
    IF off >= Len(s) THEN <<>>
    ELSE <<Slice(s, off, off + ChunkSize - 1)>> \o ShortChunkFrom(s, off + ChunkSize)


\* The windows of text[i:i+1000+1].
RECURSIVE LongChunkFrom(_, _)
LongChunkFrom(s, off) ==
    IF off >= Len(s) THEN <<>>
    ELSE <<Slice(s, off, off + ChunkSize + 1)>> \o LongChunkFrom(s, off + ChunkSize)

\* text[i:i+1000+1]: every window reaches one character into the next.
MutChunkerLong(s) == LongChunkFrom(s, 0)

\* text[i:i+1000-1]: every full window loses its last character.
MutChunkerShort(s) == ShortChunkFrom(s, 0)

\* The empty text still yields one (empty) chunk, as `chunks or [text]` would.
MutChunkerEmpty(s) == IF s = <<>> THEN << <<>> >> ELSE ChunkFrom(s, 0)

Chunker(s) == ChunkFrom(s, 0)

\* str.lstrip() / str.rstrip() / str.strip()
RECURSIVE LStrip(_)
LStrip(s) ==
    IF s # <<>> /\ Head(s) \in Whitespace THEN LStrip(Tail(s)) ELSE s

RECURSIVE RStrip(_)
RStrip(s) ==
    IF s # <<>> /\ s[Len(s)] \in Whitespace
    THEN RStrip(SubSeq(s, 1, Len(s) - 1)) ELSE s

Strip(s) == RStrip(LStrip(s))

\* `not chunk` : true of the empty chunk only.
MutIsBlank(chunk) == chunk = <<>>

\* not chunk.strip()
IsBlank(chunk) == Strip(chunk) = <<>>


\* (instance_index + 1) % 2: a modulus left over from a two-instance list.
MutRotateTwo(idx) == (idx + 1) % 2

\* Advances without wrapping: the index stays on the last instance.
MutRotate(idx) == IF idx + 1 < NumInstances THEN idx + 1 ELSE idx

\* (instance_index + 1) % len(LIBRE_TRANSLATE_INSTANCES)
Rotate(idx) == (idx + 1) % NumInstances

\* '\n'.join(parts)
RECURSIVE Join(_)
Join(parts) ==
    IF parts = <<>> THEN <<>>
    ELSE IF Len(parts) = 1 THEN parts[1]
    ELSE parts[1] \o <<"\n">> \o Join(Tail(parts))

\* Plain concatenation of the parts, nothing in between.
RECURSIVE Concat(_)
Concat(parts) ==
    IF parts = <<>> THEN <<>> ELSE Head(parts) \o Concat(Tail(parts))

\* The translatedText a backend computes for a chunk: letters are rewritten,
\* whitespace is kept.
TranslateChar(c) == IF c = "a" THEN "A" ELSE c
Translated(chunk) == [k \in 1..Len(chunk) |-> TranslateChar(chunk[k])]

\* Bodies a 200 response can carry for a chunk: the translation, the chunk
\* echoed unchanged, or a payload without the translatedText field, for which
\* result.get("translatedText", "") yields "".
Payloads == {"translated", "echo", "missing"}
TranslatedText(chunk, payload) ==
    CASE payload = "translated" -> Translated(chunk)
      [] payload = "echo"       -> chunk
      [] payload = "missing"    -> <<>>

\* ------------------------------------------------------------------- state
Init ==
    /\ text \in Texts
    /\ chunks = <<>>
    /\ translated_chunks = <<>>
    /\ instance_index = 0
    /\ i = 0
    /\ retry = 0
    /\ pc = "start"
    /\ result = <<>>
    /\ requests = <<>>
    /\ failures = <<>>
    /\ rotations = <<>>
    /\ sleeps = <<>>
    /\ progress = <<>>
    /\ origin = <<>>
    /\ exhausted = {}
    /\ echo_run = TRUE
    /\ responses = <<>>
    /\ cancel_requested = FALSE

\* Lines 36-47: split the text, empty result list, instance 0 selected.
SplitText ==
    /\ pc = "start"
    /\ chunks' = Chunker(text)
    /\ translated_chunks' = <<>>
    /\ instance_index' = 0
    /\ i' = 0
    /\ pc' = "loop"
    /\ UNCHANGED <<text, retry, result, requests, failures, rotations, sleeps, progress,
                   origin, exhausted, echo_run,
                   responses, cancel_requested>>


\* As SkipEmptyChunk with the `continue` placed before the progress update.
MutSkipEmptyChunk ==
    /\ pc = "loop"
    /\ i < Len(chunks)
    /\ IsBlank(chunks[i + 1])
    /\ translated_chunks' = Append(translated_chunks, <<>>)
    /\ origin' = Append(origin, i)
    /\ i' = i + 1
    /\ UNCHANGED <<text, chunks, instance_index, retry, pc, result, requests,
                   failures, rotations, sleeps, progress, exhausted, echo_run,
                   responses, cancel_requested>>

\* Lines 49-56: a blank chunk gets "" and its progress update, then continue.
SkipEmptyChunk ==
    /\ pc = "loop"
    /\ i < Len(chunks)
    /\ IsBlank(chunks[i + 1])
    /\ translated_chunks' = Append(translated_chunks, <<>>)
    /\ origin' = Append(origin, i)
    /\ progress' = Append(progress, <<i + 1, Len(chunks)>>)
    /\ i' = i + 1
    /\ UNCHANGED <<text, chunks, instance_index, retry, pc, result, requests, failures,
                   rotations, sleeps, exhausted, echo_run,
                   responses, cancel_requested>>

\* Lines 49-60: a non-blank chunk enters the retry loop.
StartChunk ==
    /\ pc = "loop"
    /\ i < Len(chunks)
    /\ ~IsBlank(chunks[i + 1])
    /\ retry' = 0
    /\ pc' = "attempt"
    /\ UNCHANGED <<text, chunks, translated_chunks, instance_index, i, result,
                   requests, failures, rotations, sleeps, progress, origin, exhausted,
                   echo_run,
                   responses, cancel_requested>>


\* As SendRequest with range(max_retries + 1): one attempt more per chunk.
MutSendRequestExtra ==
    /\ pc = "attempt"
    /\ retry < max_retries + 1
    /\ requests' = Append(requests, [chunk |-> i, instance |-> instance_index,
                                     attempt |-> retry])
    /\ pc' = "await"
    /\ UNCHANGED <<text, chunks, translated_chunks, instance_index, i, retry,
                   result, failures, rotations, sleeps, progress, origin,
                   exhausted, echo_run, responses, cancel_requested>>

\* Lines 60-76: requests.post to the current instance.
SendRequest ==
    /\ pc = "attempt"
    /\ retry < max_retries
    /\ requests' = Append(requests, [chunk |-> i, instance |-> instance_index,
                                     attempt |-> retry])
    /\ pc' = "await"
    /\ UNCHANGED <<text, chunks, translated_chunks, instance_index, i, retry,
                   result, failures, rotations, sleeps, progress, origin,
                   exhausted, echo_run,
                   responses, cancel_requested>>



\* As ResponseOk with result["translatedText"] in place of result.get(...):
\* a payload without the field raises KeyError inside the try block and takes
\* the exception path of lines 89-94.
MutResponseOkKeyError ==
    /\ pc = "await"
    /\ \/ /\ \E payload \in Payloads \ {"missing"} :
                /\ translated_chunks' =
                      Append(translated_chunks,
                             TranslatedText(chunks[i + 1], payload))
                /\ echo_run' = (echo_run /\ payload = "echo" /\ retry = 0)
                /\ responses' = Append(responses, payload)
          /\ origin' = Append(origin, i)
          /\ pc' = "progress"
          /\ UNCHANGED <<instance_index, retry, failures, rotations, sleeps>>
       \/ /\ responses' = Append(responses, "missing")
          /\ failures' = Append(failures, [chunk |-> i, kind |-> "exception"])
          /\ instance_index' = Rotate(instance_index)
          /\ rotations' = Append(rotations, i)
          /\ sleeps' = Append(sleeps, i)
          /\ retry' = retry + 1
          /\ echo_run' = FALSE
          /\ pc' = "attempt"
          /\ UNCHANGED <<translated_chunks, origin>>
    /\ UNCHANGED <<text, chunks, i, result, requests, progress, exhausted,
                   cancel_requested>>

\* As ResponseOk with the switch to the next instance done after every
\* response, successful ones included.
MutResponseOkRotates ==
    /\ pc = "await"
    /\ \E payload \in Payloads :
          /\ translated_chunks' =
                Append(translated_chunks, TranslatedText(chunks[i + 1], payload))
          /\ echo_run' = (echo_run /\ payload = "echo" /\ retry = 0)
          /\ responses' = Append(responses, payload)
    /\ origin' = Append(origin, i)
    /\ instance_index' = Rotate(instance_index)
    /\ rotations' = Append(rotations, i)
    /\ pc' = "progress"
    /\ UNCHANGED <<text, chunks, i, retry, result, requests, failures,
                   sleeps, progress, exhausted, cancel_requested>>

\* Lines 78-81: status 200; the translatedText (or "") is appended, break.
ResponseOk ==
    /\ pc = "await"
    /\ \E payload \in Payloads :
          /\ translated_chunks' =
                Append(translated_chunks, TranslatedText(chunks[i + 1], payload))
          /\ echo_run' = (echo_run /\ payload = "echo" /\ retry = 0)
          /\ responses' = Append(responses, payload)
    /\ origin' = Append(origin, i)
    /\ pc' = "progress"
    /\ UNCHANGED <<text, chunks, instance_index, i, retry, result, requests, failures,
                   rotations, sleeps, progress, exhausted,
                   cancel_requested>>

\* The failure path shared by lines 84-87 and 91-94: next instance, sleep.
SwitchInstance(kind) ==
    /\ failures' = Append(failures, [chunk |-> i, kind |-> kind])
    /\ responses' = Append(responses, kind)
    /\ instance_index' = Rotate(instance_index)
    /\ rotations' = Append(rotations, i)
    /\ sleeps' = Append(sleeps, i)
    /\ retry' = retry + 1
    /\ echo_run' = FALSE
    /\ pc' = "attempt"
    /\ UNCHANGED <<text, chunks, translated_chunks, i, result, requests,
                   progress, origin, exhausted,
                   cancel_requested>>

\* Lines 82-87: a status other than 200.
ResponseNon200 ==
    /\ pc = "await"
    /\ SwitchInstance("status")

\* Lines 89-94: requests.post or response.json() raised (transport, timeout).
RequestException ==
    /\ pc = "await"
    /\ SwitchInstance("exception")



\* As RetriesExhausted with the progress update inside the success branch:
\* a given-up chunk goes straight on to the next chunk.
MutRetriesExhaustedNoProgress ==
    /\ pc = "attempt"
    /\ retry = max_retries
    /\ exhausted' = exhausted \cup {i}
    /\ i' = i + 1
    /\ pc' = "loop"
    /\ UNCHANGED <<text, chunks, translated_chunks, instance_index, retry,
                   result, requests, failures, rotations, sleeps, progress,
                   origin, echo_run, responses, cancel_requested>>

\* As RetriesExhausted, giving up as soon as one attempt has failed.
MutRetriesExhaustedEarly ==
    /\ pc = "attempt"
    /\ retry >= 1
    /\ exhausted' = exhausted \cup {i}
    /\ pc' = "progress"
    /\ UNCHANGED <<text, chunks, translated_chunks, instance_index, i, retry,
                   result, requests, failures, rotations, sleeps, progress,
                   origin, echo_run, responses, cancel_requested>>

\* Line 60: range(max_retries) is used up without a break; nothing is
\* appended and nothing is raised, control falls through to line 96.
RetriesExhausted ==
    /\ pc = "attempt"
    /\ retry = max_retries
    /\ exhausted' = exhausted \cup {i}
    /\ pc' = "progress"
    /\ UNCHANGED <<text, chunks, translated_chunks, instance_index, i, retry,
                   result, requests, failures, rotations, sleeps, progress, origin,
                   echo_run,
                   responses, cancel_requested>>

\* As UpdateProgress, with the selection reset to the first instance for
\* every chunk (instance_index = 0 placed inside the chunk loop).
MutUpdateProgress ==
    /\ pc = "progress"
    /\ progress' = Append(progress, <<i + 1, Len(chunks)>>)
    /\ i' = i + 1
    /\ instance_index' = 0
    /\ pc' = "loop"
    /\ UNCHANGED <<text, chunks, translated_chunks, retry, result, requests,
                   failures, rotations, sleeps, origin, exhausted, echo_run,
                   responses, cancel_requested>>

\* Lines 96-97: progress update, then the next chunk.
UpdateProgress ==
    /\ pc = "progress"
    /\ progress' = Append(progress, <<i + 1, Len(chunks)>>)
    /\ i' = i + 1
    /\ pc' = "loop"
    /\ UNCHANGED <<text, chunks, translated_chunks, instance_index, retry,
                   result, requests, failures, rotations, sleeps, origin, exhausted,
                   echo_run,
                   responses, cancel_requested>>

\* Lines 99-100: return '\n'.join(translated_chunks)
Return ==
    /\ pc = "loop"
    /\ i = Len(chunks)
    /\ result' = Join(translated_chunks)
    /\ pc' = "done"
    /\ UNCHANGED <<text, chunks, translated_chunks, instance_index, i, retry,
                   requests, failures, rotations, sleeps, progress, origin, exhausted,
                   echo_run,
                   responses, cancel_requested>>

Next ==
    \/ SplitText
    \/ SkipEmptyChunk
    \/ StartChunk
    \/ SendRequest
    \/ ResponseOk
    \/ ResponseNon200
    \/ RequestException
    \/ RetriesExhausted
    \/ UpdateProgress
    \/ Return

Spec == Init /\ [][Next]_vars



\* The caller asks for the run to be cancelled (spec section 5). The function
\* takes no flag or token as a parameter and reads none: the request is an
\* event of the environment that no line of lines 25-100 looks at.
RequestCancel ==
    /\ pc \in {"loop", "attempt", "await", "progress"}
    /\ ~cancel_requested
    /\ cancel_requested' = TRUE
    /\ UNCHANGED <<text, chunks, translated_chunks, instance_index, i, retry,
                   pc, result, requests, failures, rotations, sleeps,
                   progress, origin, exhausted, echo_run, responses>>

NextCancel ==
    \/ Next
    \/ RequestCancel

\* The run with a caller that may ask for cancellation at any point.
SpecCancel == Init /\ [][NextCancel]_vars


\* The run in which the interpreter always takes the next step and every
\* request is answered, fails or times out (timeout=30 at line 75).
FairSpec == Spec /\ WF_vars(Next)

\* ------------------------------------------------------------ observations
\* Chunk indices are 0-based as in enumerate(chunks).
ChunkIndices == 0..(Len(chunks) - 1)

\* A chunk that is empty or made of whitespace characters only.
AllWhitespace(chunk) == \A k \in DOMAIN chunk : chunk[k] \in Whitespace

RequestsFor(k) == {n \in DOMAIN requests : requests[n].chunk = k}
RotationsFor(k) == {n \in DOMAIN rotations : rotations[n] = k}
SleepsFor(k) == {n \in DOMAIN sleeps : sleeps[n] = k}
ResultsFor(k) == {p \in DOMAIN origin : origin[p] = k}

\* ------------------------------------------------------------------ claims

\* C1 (as claimed): once a chunk has used up all its attempts the run fails:
\* no request is ever issued for a later chunk and no text is ever returned.
C1_FailFast ==
    \A k \in exhausted :
        /\ pc # "done"
        /\ \A n \in DOMAIN requests : requests[n].chunk <= k

\* C2 (as claimed): when the function has returned, every chunk index has
\* exactly one recorded result and there are as many results as chunks.
C2_ResultCompleteness ==
    pc = "done" =>
        /\ Len(translated_chunks) = Len(chunks)
        /\ \A k \in ChunkIndices : Cardinality(ResultsFor(k)) = 1

\* C3 (as claimed): a chunk whose every request failed got exactly 3
\* requests and 3 rotations, and the call then fails: the loop never moves
\* past that chunk.
C3_RetryExhaustion ==
    \A k \in exhausted :
        /\ Cardinality(RequestsFor(k)) = 3
        /\ Cardinality(RotationsFor(k)) = 3
        /\ i = k

\* C4 (as claimed): the result recorded at position p (1-based) of
\* translated_chunks is the result of chunk p-1, whatever failed before.
C4_OrderPreservation ==
    \A p \in DOMAIN origin : origin[p] = p - 1

\* C5: concatenating the chunks in index order, with nothing in between (the
\* chunker cuts at raw offsets), gives back the input text.
C5_RoundTrip ==
    pc # "start" => Concat(chunks) = text

\* C5 witness: a text split into several chunks, the last one partial.
C5_Witness ==
    /\ pc # "start"
    /\ Len(chunks) >= 2
    /\ Len(chunks[Len(chunks)]) < ChunkSize
    /\ Concat(chunks) = text

\* C6 (as claimed): with a backend that echoes every chunk on the first
\* attempt, the returned text is the input text (stated for texts without
\* whitespace-only chunks, whose result is "" by design).
C6_IdentityRoundTrip ==
    ( /\ pc = "done"
      /\ echo_run
      /\ \A k \in ChunkIndices : ~AllWhitespace(chunks[k + 1]) )
    => result = text

\* C7 (as claimed): after N+1 rotations the first instance is selected again.
C7_WrapsAfterNPlusOne ==
    Len(rotations) = NumInstances + 1 => instance_index = 0

\* C7 (amended): the selection stays within [0, N) and is the number of
\* rotations modulo N, so it is back on the first instance after N rotations
\* and on the second after N+1.
C7_RotationRing ==
    /\ instance_index \in 0..(NumInstances - 1)
    /\ instance_index = Len(rotations) % NumInstances
    /\ Len(rotations) = NumInstances => instance_index = 0
    /\ Len(rotations) = NumInstances + 1 => instance_index = 1

\* C7 witness: the selection has wrapped from the last instance to the first.
C7_Witness ==
    /\ Len(rotations) = NumInstances
    /\ instance_index = 0

\* C8: the selection changes only in a step that answers a request in
\* flight with a failure, and then by one rotation; every request goes to
\* the selection as it stands, so a chunk's first request goes to the
\* instance that was current when the previous chunk resolved.
C8_RotationPersists ==
    [][ /\ instance_index' # instance_index =>
              /\ pc = "await"
              /\ pc' = "attempt"
              /\ Len(rotations') = Len(rotations) + 1
              /\ instance_index' = (instance_index + 1) % NumInstances
        /\ Len(rotations') # Len(rotations) => instance_index' # instance_index
        /\ Len(requests') # Len(requests) =>
              /\ instance_index' = instance_index
              /\ requests'[Len(requests')].instance = instance_index
      ]_vars

\* C8 witness: the first request of a later chunk is in flight to an
\* instance other than the first, left selected by an earlier chunk.
C8_Witness ==
    /\ pc = "await"
    /\ i > 0
    /\ retry = 0
    /\ instance_index # 0
    /\ requests[Len(requests)].instance = instance_index

\* C9: the empty text has no chunks, issues no request and returns the empty
\* string; a non-empty text always has chunks.
C9_EmptyInput ==
    pc # "start" =>
        /\ (chunks # <<>>) <=> (text # <<>>)
        /\ text = <<>> =>
              /\ requests = <<>>
              /\ exhausted = {}
              /\ pc \in {"loop", "done"}
              /\ pc = "done" => result = <<>>

\* C9 witness: the run on the empty text has returned.
C9_Witness ==
    /\ text = <<>>
    /\ pc = "done"
    /\ result = <<>>
    /\ requests = <<>>

\* C10: a chunk of whitespace only never gets a request, a rotation or a
\* sleep, and once the loop is past it has exactly one result, the empty
\* string.
C10_BlankChunk ==
    \A k \in ChunkIndices :
        AllWhitespace(chunks[k + 1]) =>
            /\ RequestsFor(k) = {}
            /\ RotationsFor(k) = {}
            /\ SleepsFor(k) = {}
            /\ k \notin exhausted
            /\ k < i =>
                  /\ Cardinality(ResultsFor(k)) = 1
                  /\ \A p \in ResultsFor(k) : translated_chunks[p] = <<>>

\* C10 witness: a non-empty whitespace chunk was passed after an earlier
\* chunk had made the pool rotate.
C10_Witness ==
    \E k \in ChunkIndices :
        /\ k < i
        /\ chunks[k + 1] # <<>>
        /\ AllWhitespace(chunks[k + 1])
        /\ rotations # <<>>
        /\ Cardinality(ResultsFor(k)) = 1

\* C11: the progress reports are exactly (1, n), (2, n), ... in this order,
\* one per chunk the loop has passed (blank, translated or given up), so
\* they increase strictly, and a run that returned ended on (n, n).
C11_Progress ==
    /\ Len(progress) = i
    /\ \A p \in DOMAIN progress : progress[p] = <<p, Len(chunks)>>
    /\ (pc = "done" /\ chunks # <<>>) =>
          progress[Len(progress)] = <<Len(chunks), Len(chunks)>>

\* C11 witness: a returned run that reported a blank chunk, a translated
\* chunk or a given-up chunk, with more than one report.
C11_Witness ==
    /\ pc = "done"
    /\ Len(progress) >= 2
    /\ exhausted # {}
    /\ \E k \in ChunkIndices : AllWhitespace(chunks[k + 1])

\* C12 (as claimed): the loop looks at the cancellation request before it
\* dispatches the next chunk, so no chunk is started once cancellation
\* has been requested.
C12_Cancellation ==
    [][~(cancel_requested /\ pc = "loop" /\ pc' = "attempt")]_vars

\* Requests answered so far, and those among them not answered by a 200.
Answered == Len(requests) - (IF pc = "await" THEN 1 ELSE 0)
Successes == {p \in DOMAIN origin : ~AllWhitespace(chunks[origin[p] + 1])}
FailedAttempts == Answered - Cardinality(Successes)

\* C13: there are as many rotations as failed attempts (non-200 or
\* exception), none for a success, so the selection is the number of failed
\* attempts modulo N; in a returned two-chunk run whose only failure is the
\* first request of chunk 0, the requests went to instances 0, 1, 1, the
\* selection ends on instance 1 and the results are those of chunks 0, 1.
C13_RotationPerFailure ==
    /\ Len(rotations) = FailedAttempts
    /\ Len(failures) = FailedAttempts
    /\ instance_index = FailedAttempts % NumInstances
    /\ ( /\ pc = "done"
         /\ Len(chunks) = 2
         /\ Len(responses) = 3
         /\ responses[1] \in {"status", "exception"}
         /\ FailedAttempts = 1 )
       => /\ instance_index = 1
          /\ [n \in DOMAIN requests |-> requests[n].instance] = <<0, 1, 1>>
          /\ [n \in DOMAIN requests |-> requests[n].chunk] = <<0, 0, 1>>
          /\ origin = <<0, 1>>

\* C13 witness: the two-chunk scenario has returned.
C13_Witness ==
    /\ pc = "done"
    /\ Len(chunks) = 2
    /\ Len(responses) = 3
    /\ responses[1] = "exception"
    /\ FailedAttempts = 1
    /\ instance_index = 1
    /\ origin = <<0, 1>>

FailuresFor(k) == {n \in DOMAIN failures : failures[n].chunk = k}

\* C14: a failed attempt leaves the chunk in its retry loop: the chunk
\* index, the results and the returned text are untouched; while fewer than
\* max_retries attempts have failed the next request is enabled and is the
\* only step the loop can take; a chunk is given up only after max_retries
\* failed attempts of its own.
C14_FailureAbsorbed ==
    /\ [](pc = "attempt" /\ retry < max_retries => ENABLED SendRequest)
    /\ [][ /\ (pc = "await" /\ Len(failures') = Len(failures) + 1) =>
                 /\ pc' = "attempt"
                 /\ i' = i
                 /\ translated_chunks' = translated_chunks
                 /\ exhausted' = exhausted
                 /\ result' = result
           /\ (pc = "attempt" /\ retry < max_retries) =>
                 /\ pc' = "await"
                 /\ Len(requests') = Len(requests) + 1
                 /\ requests'[Len(requests')].chunk = i
           /\ exhausted' # exhausted =>
                 /\ exhausted' = exhausted \cup {i}
                 /\ Cardinality(FailuresFor(i)) = max_retries
         ]_vars

\* C14 witness: after two failed attempts the third request of the chunk
\* is in flight.
C14_Witness ==
    /\ pc = "await"
    /\ retry = 2
    /\ Cardinality(FailuresFor(i)) = 2
    /\ Cardinality(RequestsFor(i)) = 3
    /\ i \notin exhausted

\* C15: the step that receives a 200 response without the translatedText
\* field appends "" as the chunk's result and leaves the retry loop for the
\* progress update, with no rotation, sleep, failure or giving up; and no
\* further request is ever made for that chunk.
C15_MissingField ==
    /\ [][ ( /\ Len(responses') = Len(responses) + 1
             /\ responses'[Len(responses')] = "missing" ) =>
              /\ translated_chunks' = Append(translated_chunks, <<>>)
              /\ origin' = Append(origin, i)
              /\ pc' = "progress"
              /\ i' = i
              /\ instance_index' = instance_index
              /\ rotations' = rotations
              /\ sleeps' = sleeps
              /\ failures' = failures
              /\ exhausted' = exhausted
         ]_vars
    /\ [](\A n \in DOMAIN responses :
             responses[n] = "missing" =>
                 /\ \A m \in DOMAIN requests :
                       m > n => requests[m].chunk # requests[n].chunk
                 /\ requests[n].chunk \notin exhausted)

\* C15 witness: a payload without the field came back for chunk 0, and the
\* loop has gone on to a request for the next chunk.
C15_Witness ==
    /\ responses # <<>>
    /\ responses[1] = "missing"
    /\ translated_chunks # <<>>
    /\ translated_chunks[1] = <<>>
    /\ Len(requests) = 2
    /\ requests[2].chunk = 1

\* C16: every chunk has between 1 and ChunkSize characters, every chunk but
\* the last has exactly ChunkSize, and there are ceil(len(text)/ChunkSize)
\* chunks.
C16_ChunkSizeBound ==
    pc # "start" =>
        /\ \A k \in DOMAIN chunks :
              /\ Len(chunks[k]) >= 1
              /\ Len(chunks[k]) <= ChunkSize
              /\ k < Len(chunks) => Len(chunks[k]) = ChunkSize
        /\ Len(chunks) = (Len(text) + ChunkSize - 1) \div ChunkSize

\* C16 witness: a text of at least two chunks, once with a partial last
\* chunk.
C16_Witness ==
    /\ pc # "start"
    /\ Len(chunks) >= 2
    /\ Len(chunks[1]) = ChunkSize
    /\ Len(chunks[Len(chunks)]) \in 1..(ChunkSize - 1)
    /\ Len(text) % ChunkSize # 0

\* Requests sent and not yet answered.
InFlight == Len(requests) - Len(responses)

\* C17: at most one request is in flight, exactly while the function waits
\* in requests.post; a request is sent only when none is in flight, and a
\* request for chunk k only when every earlier chunk has a result or was
\* given up and has had its progress reported; requests never go back to an
\* earlier chunk.
C17_SequentialDispatch ==
    /\ [](/\ InFlight \in {0, 1}
          /\ (InFlight = 1) <=> (pc = "await"))
    /\ [][ Len(requests') = Len(requests) + 1 =>
              /\ InFlight = 0
              /\ requests'[Len(requests')].chunk = i
              /\ \A n \in DOMAIN requests : requests[n].chunk <= i
              /\ Len(progress) = i
              /\ \A j \in 0..(i - 1) :
                    /\ (ResultsFor(j) # {}) \/ (j \in exhausted)
                    /\ progress[j + 1] = <<j + 1, Len(chunks)>>
         ]_vars

\* C17 witness: the first request of the second chunk is in flight after the
\* first chunk was given up and reported.
C17_Witness ==
    /\ pc = "await"
    /\ i = 1
    /\ retry = 0
    /\ 0 \in exhausted
    /\ Len(progress) = 1
    /\ InFlight = 1

InstancesFor(k) == {requests[n].instance : n \in RequestsFor(k)}

\* C18: two requests for the same chunk never go to the same instance (so
\* consecutive attempts differ), a chunk gets at most max_retries requests,
\* and a chunk that was given up had one failed request at each of the N
\* instances.
C18_DistinctEndpoints ==
    /\ \A m, n \in DOMAIN requests :
          (m # n /\ requests[m].chunk = requests[n].chunk)
              => requests[m].instance # requests[n].instance
    /\ \A k \in ChunkIndices :
          /\ Cardinality(RequestsFor(k)) <= max_retries
          /\ k \in exhausted =>
                /\ InstancesFor(k) = 0..(NumInstances - 1)
                /\ Cardinality(FailuresFor(k)) = NumInstances

\* C18 witness: a chunk that started on an instance other than the first was
\* given up after its requests wrapped around the pool.
C18_Witness ==
    \E k \in exhausted :
        /\ \E n \in RequestsFor(k) :
              requests[n].attempt = 0 /\ requests[n].instance # 0
        /\ InstancesFor(k) = 0..(NumInstances - 1)

NonBlankChunks == {k \in ChunkIndices : ~AllWhitespace(chunks[k + 1])}

\* C19: every run in which each request is eventually answered returns; at
\* all times the number of requests is at most 3 per non-blank chunk and the
\* number of rotations at most the number of requests.
C19_Terminates ==
    /\ <>(pc = "done")
    /\ [](/\ Len(requests) <= 3 * Cardinality(NonBlankChunks)
          /\ Len(rotations) <= Len(requests))

\* C19 witness: a run that used the whole budget of every chunk, with more
\* than one non-blank chunk, has returned.
C19_Witness ==
    /\ pc = "done"
    /\ Cardinality(NonBlankChunks) >= 2
    /\ Len(requests) = 3 * Cardinality(NonBlankChunks)
    /\ Len(rotations) = Len(requests)
====
